---- MODULE Spec2Model ----
(***************************************************************************)
(* Vector clocks carried through an RPC request/response exchange.         *)
(*                                                                         *)
(*   vector_clock.py   VectorClock: increment, update (merge), compare,    *)
(*                     to_dict, from_dict                                  *)
(*   server.py         RpcHandler.do_POST on the class-wide server_clock,  *)
(*                     served by HTTPServer.serve_forever                  *)
(*   client.py         RpcClient.call_rpc on the client's vector_clock     *)
(*   demo_vector_clocks.py / test_vector_clock: nodes exchanging clocks    *)
(*                                                                         *)
(* A clock (the dict VectorClock.clock) is a function from a subset of     *)
(* Labels to integers.  Five specifications share the module:              *)
(*   SpecPure   the VectorClock methods applied to drawn operands          *)
(*   SpecClock  two nodes incrementing, merging and sending snapshots      *)
(*   Spec       the Endpoint (server.py) serving requests from the network *)
(*   SpecRpc    two Sessions (client.py) calling the Endpoint over a       *)
(*              network that also carries other parties' messages          *)
(*   SpecClosed the same Sessions and Endpoint with no other party         *)
(***************************************************************************)
EXTENDS Integers, FiniteSets, Sequences, TLC

VARIABLES
    self_in,        \* SpecPure: the receiver clock of the call
    other_in,       \* SpecPure: the argument clock of the call
    third_in,       \* SpecPure: a third clock, for calls on three clocks
    data_in,        \* SpecPure: the JSON value handed to from_dict
    ret,            \* SpecPure: what the last call returned / left in self
    both,           \* SpecPure: the results of a call made in two ways
    clocks,         \* SpecClock: node -> its VectorClock.clock
    wire,           \* SpecClock: the snapshot in flight between two nodes
    chain,          \* SpecClock: the last receive (snapshot sent, receiver after)
    history,        \* SpecClock: node -> what it has done since construction
    server_clock,   \* Spec: RpcHandler.server_clock.clock
    backlog,        \* Spec: connections sent by clients, not yet accepted
    nreq,           \* Spec: requests accepted so far
    active,         \* Spec: the do_POST calls in progress
    response,       \* Spec: the response last written (history fields included)
    returned,       \* Spec: the clock last returned, compared with the one before
    vector_clock,   \* SpecRpc: Session -> RpcClient.vector_clock.clock
    call,           \* SpecRpc: Session -> its call_rpc in progress or last ended
    net,            \* SpecRpc: Session -> the message in flight on its connection
    nsent           \* SpecRpc: requests sent to the Endpoint so far

pureVars  == <<self_in, other_in, third_in, data_in, ret, both>>
clockVars == <<clocks, wire, chain, history>>
epVars    == <<server_clock, backlog, nreq, active, response, returned>>
rpcVars   == <<vector_clock, call, net, nsent>>
vars      == <<self_in, other_in, third_in, data_in, ret, both,
               clocks, wire, chain, history,
               server_clock, backlog, nreq, active, response, returned,
               vector_clock, call, net, nsent>>

----------------------------------------------------------------------------
(* Bounds *)

\* largest counter value drawn as an input or reached by an increment
MaxCounter == 2
\* requests the Endpoint accepts in one run
MaxRequests == 2

Labels == {"A", "B", "server"}
Nodes  == {"A", "B"}

\* integers a decoded clock value can be (a negative one included)
IntValues == (-1)..MaxCounter

EmptyClock == [n \in {} |-> 0]

\* every label -> integer mapping over a subset of Labels
IntClocks == UNION {[S -> IntValues] : S \in SUBSET Labels}

\* the clocks drawn for a call on three clocks: two labels are enough, as
\* update treats each label apart from the others
JoinClocks == UNION {[S -> IntValues] : S \in SUBSET {"A", "server"}}

----------------------------------------------------------------------------
(* vector_clock.py *)

\* dict.get(node, 0)
Get(clock, node) == IF node \in DOMAIN clock THEN clock[node] ELSE 0

\* max(a, b)
Max(a, b) == IF a >= b THEN a ELSE b

\* VectorClock.__init__: all_nodes (None and [] are both falsy) or the own label
VectorClock(node_id, all_nodes) ==
    IF all_nodes # {} THEN [n \in all_nodes |-> 0] ELSE [n \in {node_id} |-> 0]

\* fault: the counter is advanced by two
increment_twice(clock, node_id) ==
    [n \in DOMAIN clock \cup {node_id} |->
        IF n = node_id THEN Get(clock, n) + 2 ELSE clock[n]]

\* VectorClock.increment(node_id): create the label at 0 when unseen, then += 1
increment(clock, node_id) ==
    [n \in DOMAIN clock \cup {node_id} |->
        IF n = node_id THEN Get(clock, n) + 1 ELSE clock[n]]

\* fault: the other clock's value is stored without taking the max
update_overwrite(clock, other_clock) ==
    [n \in DOMAIN clock \cup DOMAIN other_clock |->
        IF n \in DOMAIN other_clock THEN other_clock[n] ELSE clock[n]]

\* fault: labels self has never seen are not created
update_known_only(clock, other_clock) ==
    [n \in DOMAIN clock |->
        IF n \in DOMAIN other_clock THEN Max(clock[n], other_clock[n]) ELSE clock[n]]

\* fault: the other clock's value is added to the own one
update_add(clock, other_clock) ==
    [n \in DOMAIN clock \cup DOMAIN other_clock |->
        IF n \in DOMAIN other_clock
        THEN Get(clock, n) + other_clock[n]
        ELSE clock[n]]

\* VectorClock.update(other_clock): for every item of other, create the label
\* at 0 when unseen and take the max; labels of self alone are not visited
update(clock, other_clock) ==
    [n \in DOMAIN clock \cup DOMAIN other_clock |->
        IF n \in DOMAIN other_clock
        THEN Max(Get(clock, n), other_clock[n])
        ELSE clock[n]]

\* the loop of compare: the flags after visiting every node of both key sets
self_greater(clock, other_clock) ==
    \E node \in DOMAIN clock \cup DOMAIN other_clock :
        Get(clock, node) > Get(other_clock, node)

other_greater(clock, other_clock) ==
    \E node \in DOMAIN clock \cup DOMAIN other_clock :
        /\ ~(Get(clock, node) > Get(other_clock, node))
        /\ Get(other_clock, node) > Get(clock, node)

\* fault: only self's own keys are visited
compare_own_keys(clock, other_clock) ==
    LET sg == \E node \in DOMAIN clock : clock[node] > Get(other_clock, node)
        og == \E node \in DOMAIN clock : Get(other_clock, node) > clock[node]
    IN  IF sg /\ ~og THEN "happens-after"
        ELSE IF og /\ ~sg THEN "happens-before"
        ELSE IF ~sg /\ ~og THEN "equal"
        ELSE "concurrent"

\* fault: self being ahead decides the verdict alone
compare_dominance(clock, other_clock) ==
    LET sg == self_greater(clock, other_clock)
        og == other_greater(clock, other_clock)
    IN  IF sg THEN "happens-after"
        ELSE IF og THEN "happens-before"
        ELSE "equal"

\* fault: >= and <= in place of > and <
compare_not_strict(clock, other_clock) ==
    LET sg == \E node \in DOMAIN clock \cup DOMAIN other_clock :
                 Get(clock, node) >= Get(other_clock, node)
        og == \E node \in DOMAIN clock \cup DOMAIN other_clock :
                 Get(other_clock, node) >= Get(clock, node)
    IN  IF sg /\ ~og THEN "happens-after"
        ELSE IF og /\ ~sg THEN "happens-before"
        ELSE IF ~sg /\ ~og THEN "equal"
        ELSE "concurrent"

\* VectorClock.compare(other_clock)
compare(clock, other_clock) ==
    LET sg == self_greater(clock, other_clock)
        og == other_greater(clock, other_clock)
    IN  IF sg /\ ~og THEN "happens-after"
        ELSE IF og /\ ~sg THEN "happens-before"
        ELSE IF ~sg /\ ~og THEN "equal"
        ELSE "concurrent"

\* the four results of compare; the spec calls the first two after and before
after      == "happens-after"
before     == "happens-before"
equal      == "equal"
concurrent == "concurrent"

\* VectorClock.to_dict: a copy of the dict
to_dict(clock) == [n \in DOMAIN clock |-> clock[n]]

----------------------------------------------------------------------------
(* JSON values as json.loads yields them, and int() on each *)

\* [t, v]: int v; float v/2; string holding the decimal v; text that is no
\* number; true; null (also standing for a nested list or object)
JsonInt(n)  == [t |-> "int", v |-> n]
JsonNull    == [t |-> "null", v |-> 0]
JsonValues ==
    {JsonInt(n) : n \in IntValues}
    \cup {[t |-> "float", v |-> h] : h \in {-1, 3}}
    \cup {[t |-> "string", v |-> 1], [t |-> "text", v |-> 0],
          [t |-> "true", v |-> 1], JsonNull}

\* int(v): floats truncate toward zero, numeric strings parse, booleans are
\* 1/0; None and other text raise (ok = FALSE)
py_int(j) ==
    CASE j.t = "int"    -> [ok |-> TRUE, v |-> j.v]
      [] j.t = "float"  -> [ok |-> TRUE,
                            v |-> IF j.v >= 0 THEN j.v \div 2 ELSE -((-j.v) \div 2)]
      [] j.t = "string" -> [ok |-> TRUE, v |-> j.v]
      [] j.t = "true"   -> [ok |-> TRUE, v |-> 1]
      [] OTHER          -> [ok |-> FALSE, v |-> 0]

\* a JSON field: absent, an object (items: label -> JSON value), or anything
\* that is not an object
JsonAbsent       == [kind |-> "absent", items |-> EmptyClock]
JsonOther        == [kind |-> "other", items |-> EmptyClock]
JsonObject(its)  == [kind |-> "object", items |-> its]

JsonObjects(values) ==
    {JsonObject(its) : its \in UNION {[S -> values] : S \in SUBSET Labels}}

\* VectorClock.from_dict(data, node_id): {k: int(v) for k, v in data.items()};
\* ok = FALSE when data has no items() or an int(v) raises
from_dict(data) ==
    IF data.kind # "object" THEN [ok |-> FALSE, clock |-> EmptyClock]
    ELSE IF \E k \in DOMAIN data.items : ~py_int(data.items[k]).ok
         THEN [ok |-> FALSE, clock |-> EmptyClock]
         ELSE [ok |-> TRUE,
               clock |-> [k \in DOMAIN data.items |-> py_int(data.items[k]).v]]

----------------------------------------------------------------------------
(* The state each specification leaves alone *)

NoRet == [op |-> "none", ok |-> TRUE, rel |-> "", before |-> EmptyClock,
          arg |-> EmptyClock, clock |-> EmptyClock]

\* no call made in two ways yet
NoBoth == [op |-> "none", left |-> EmptyClock, right |-> EmptyClock]

PureOff ==
    /\ self_in = EmptyClock
    /\ other_in = EmptyClock
    /\ third_in = EmptyClock
    /\ data_in = JsonAbsent
    /\ ret = NoRet
    /\ both = NoBoth

NoWire  == [full |-> FALSE, from |-> "", clock |-> EmptyClock]
NoChain == [done |-> FALSE, from |-> "", to |-> "", sent |-> EmptyClock,
            after |-> EmptyClock]

ClockOff ==
    /\ clocks = [n \in Nodes |-> EmptyClock]
    /\ wire = NoWire
    /\ chain = NoChain
    /\ history = [n \in Nodes |-> "new"]

\* client_clock = None
NoClientClock == [present |-> FALSE, clock |-> EmptyClock]

\* no response written yet; body, request_clock, merged, path, operands,
\* start and left record the request a response answers, the client clock
\* its handler built, and the server clock the handler found and left
NoResponse ==
    [status |-> -1, error |-> "", has_clock |-> FALSE, vector_clock |-> EmptyClock,
     causality |-> FALSE, relationship |-> "", client_clock |-> NoClientClock,
     body |-> "", request_clock |-> JsonAbsent, path |-> "", operands |-> "",
     merged |-> NoClientClock, start |-> EmptyClock, left |-> EmptyClock]

\* no response has carried a clock yet.  n counts those that did, up to
\* two; later is the clock of the last one, rel and rev are later.compare
\* of the clock returned before it, and that clock's compare of later
NoReturned == [n |-> 0, later |-> EmptyClock, rel |-> "", rev |-> ""]

EpOff ==
    /\ server_clock = VectorClock("server", {"server"})
    /\ backlog = 0
    /\ nreq = 0
    /\ active = {}
    /\ response = NoResponse
    /\ returned = NoReturned

\* no call_rpc made yet; before and sent are the Session's clock at entry
\* and as attached, returned is the "vector_clock" member of the reply read
NoCall == [pc |-> "idle", outcome |-> "none", retry |-> FALSE,
           before |-> EmptyClock, sent |-> EmptyClock, returned |-> JsonAbsent]

\* nothing in flight on a connection
NoMessage == [kind |-> "none", status |-> 0, vector_clock |-> JsonAbsent]

RpcOff ==
    /\ vector_clock = [s \in Nodes |-> EmptyClock]
    /\ call = [s \in Nodes |-> NoCall]
    /\ net = [s \in Nodes |-> NoMessage]
    /\ nsent = 0


----------------------------------------------------------------------------
(* SpecPure: one VectorClock method applied to drawn operands *)

\* every counter of the clock is >= 0
NonNegative(clock) == \A n \in DOMAIN clock : clock[n] >= 0

\* self.compare(other_clock)
CallCompare ==
    /\ ret.op = "none"
    /\ both.op = "none"
    /\ data_in.kind = "absent"
    /\ ret' = [op |-> "compare", ok |-> TRUE, rel |-> compare(self_in, other_in),
               before |-> self_in, arg |-> other_in, clock |-> self_in]
    /\ UNCHANGED <<self_in, other_in, third_in, data_in, both,
                   clockVars, epVars, rpcVars>>

\* self.update(other_clock): self is mutated in place.  Every clock the
\* program merges into was built by the constructor (server.py:43,
\* client.py:21, the demos), so its counters are >= 0; the argument may be
\* any imported clock
CallUpdate ==
    /\ ret.op = "none"
    /\ both.op = "none"
    /\ data_in.kind = "absent"
    /\ NonNegative(self_in)
    /\ self_in' = update(self_in, other_in)
    /\ ret' = [op |-> "update", ok |-> TRUE, rel |-> "",
               before |-> self_in, arg |-> other_in, clock |-> self_in']
    /\ UNCHANGED <<other_in, third_in, data_in, both, clockVars, epVars, rpcVars>>

\* VectorClock.from_dict(data, node_id)
CallFromDict ==
    /\ ret.op = "none"
    /\ both.op = "none"
    /\ data_in.kind # "absent"
    /\ LET r == from_dict(data_in)
       IN  ret' = [op |-> "from_dict", ok |-> r.ok, rel |-> "",
                   before |-> EmptyClock, arg |-> EmptyClock, clock |-> r.clock]
    /\ UNCHANGED <<self_in, other_in, third_in, data_in, both,
                   clockVars, epVars, rpcVars>>

\* A.update(B); A.update(B) on one copy of A, A.update(B) on another
CallUpdateTwice ==
    /\ ret.op = "none"
    /\ both.op = "none"
    /\ data_in.kind = "absent"
    /\ NonNegative(self_in)
    /\ both' = [op |-> "update_twice",
                left |-> update(self_in, other_in),
                right |-> update(update(self_in, other_in), other_in)]
    /\ UNCHANGED <<self_in, other_in, third_in, data_in, ret,
                   clockVars, epVars, rpcVars>>

\* A.update(B) on a copy of A, B.update(A) on a copy of B: A and B are any
\* two VectorClock objects, built by the constructor or by from_dict
CallUpdateBothWays ==
    /\ ret.op = "none"
    /\ both.op = "none"
    /\ data_in.kind = "absent"
    /\ both' = [op |-> "update_both_ways",
                left |-> update(self_in, other_in),
                right |-> update(other_in, self_in)]
    /\ UNCHANGED <<self_in, other_in, third_in, data_in, ret,
                   clockVars, epVars, rpcVars>>

\* A.update(B); A.update(C) on one copy of A, B.update(C); A.update(B) on
\* another
CallUpdateChain ==
    /\ ret.op = "none"
    /\ both.op = "none"
    /\ data_in.kind = "absent"
    /\ both' = [op |-> "update_chain",
                left |-> update(update(self_in, other_in), third_in),
                right |-> update(self_in, update(other_in, third_in))]
    /\ UNCHANGED <<self_in, other_in, third_in, data_in, ret,
                   clockVars, epVars, rpcVars>>

\* A.update(B); A.update(C) on one copy of A, A.update(C); A.update(B) on
\* another: B and C are snapshots arriving in either order
CallUpdateEitherOrder ==
    /\ ret.op = "none"
    /\ both.op = "none"
    /\ data_in.kind = "absent"
    /\ NonNegative(self_in)
    /\ both' = [op |-> "update_either_order",
                left |-> update(update(self_in, other_in), third_in),
                right |-> update(update(self_in, third_in), other_in)]
    /\ UNCHANGED <<self_in, other_in, third_in, data_in, ret,
                   clockVars, epVars, rpcVars>>

\* A.compare(B) and B.compare(A)
CallCompareBothWays ==
    /\ ret.op = "none"
    /\ both.op = "none"
    /\ data_in.kind = "absent"
    /\ both' = [op |-> "compare_both_ways",
                left |-> compare(self_in, other_in),
                right |-> compare(other_in, self_in)]
    /\ UNCHANGED <<self_in, other_in, third_in, data_in, ret,
                   clockVars, epVars, rpcVars>>

PureInit ==
    /\ \/ /\ self_in \in IntClocks
          /\ other_in \in IntClocks
          /\ third_in = EmptyClock
          /\ data_in = JsonAbsent
       \/ /\ self_in \in JoinClocks
          /\ other_in \in JoinClocks
          /\ third_in \in JoinClocks
          /\ data_in = JsonAbsent
       \/ /\ self_in = EmptyClock
          /\ other_in = EmptyClock
          /\ third_in = EmptyClock
          /\ data_in \in JsonObjects(JsonValues) \cup {JsonOther}
    /\ ret = NoRet
    /\ both = NoBoth
    /\ ClockOff
    /\ EpOff
    /\ RpcOff

PureNext ==
    \/ CallCompare
    \/ CallUpdate
    \/ CallFromDict
    \/ CallUpdateTwice
    \/ CallUpdateBothWays
    \/ CallUpdateChain
    \/ CallUpdateEitherOrder
    \/ CallCompareBothWays

SpecPure == PureInit /\ [][PureNext]_vars

----------------------------------------------------------------------------
(* SpecClock: two nodes, each owning one VectorClock, as in                *)
(* test_vector_clock and demo_vector_clocks.py                             *)

\* what a node has done since construction: nothing ("new"), increments of
\* its own label only ("own"), or also a merge or another label's increment
AfterOwnIncrement(h) == IF h = "mixed" THEN "mixed" ELSE "own"

\* clock.increment() / clock.increment(label): arg "None" is the default
ClockIncrement(n, arg) ==
    LET label == IF arg = "None" THEN n ELSE arg
    IN  /\ Get(clocks[n], label) < MaxCounter
        /\ clocks' = [clocks EXCEPT ![n] = increment(clocks[n], label)]
        /\ history' = [history EXCEPT
                          ![n] = IF label = n THEN AfterOwnIncrement(history[n])
                                 ELSE "mixed"]
        /\ chain' = NoChain
        /\ UNCHANGED <<wire, pureVars, epVars, rpcVars>>

\* clock_b.update(clock_a): merge the other node's current clock
ClockUpdate(n, m) ==
    /\ n # m
    /\ clocks' = [clocks EXCEPT ![n] = update(clocks[n], clocks[m])]
    /\ history' = [history EXCEPT ![n] = "mixed"]
    /\ chain' = NoChain
    /\ UNCHANGED <<wire, pureVars, epVars, rpcVars>>

\* the sender increments its own counter and sends a snapshot of its clock
ClockSend(n) ==
    /\ ~wire.full
    /\ Get(clocks[n], n) < MaxCounter
    /\ clocks' = [clocks EXCEPT ![n] = increment(clocks[n], n)]
    /\ wire' = [full |-> TRUE, from |-> n, clock |-> to_dict(clocks'[n])]
    /\ history' = [history EXCEPT ![n] = AfterOwnIncrement(history[n])]
    /\ chain' = NoChain
    /\ UNCHANGED <<pureVars, epVars, rpcVars>>

\* the receiver merges the snapshot, then increments its own counter
ClockReceive(m) ==
    /\ wire.full
    /\ m # wire.from
    /\ Max(Get(clocks[m], m), Get(wire.clock, m)) < MaxCounter
    /\ clocks' = [clocks EXCEPT ![m] = increment(update(clocks[m], wire.clock), m)]
    /\ chain' = [done |-> TRUE, from |-> wire.from, to |-> m,
                 sent |-> wire.clock, after |-> clocks'[m]]
    /\ wire' = NoWire
    /\ history' = [history EXCEPT ![m] = "mixed"]
    /\ UNCHANGED <<pureVars, epVars, rpcVars>>

\* each node is constructed with some all_nodes list, or none
ClockInit ==
    /\ \E all_nodes \in [Nodes -> SUBSET Labels] :
          clocks = [n \in Nodes |-> VectorClock(n, all_nodes[n])]
    /\ wire = NoWire
    /\ chain = NoChain
    /\ history = [n \in Nodes |-> "new"]
    /\ PureOff
    /\ EpOff
    /\ RpcOff

ClockNext ==
    \/ \E n \in Nodes, arg \in Labels \cup {"None"} : ClockIncrement(n, arg)
    \/ \E n \in Nodes, m \in Nodes : ClockUpdate(n, m)
    \/ \E n \in Nodes : ClockSend(n)
    \/ \E m \in Nodes : ClockReceive(m)

SpecClock == ClockInit /\ [][ClockNext]_vars

----------------------------------------------------------------------------
(* Spec: the Endpoint.  RpcHandler.do_POST runs on the class attribute     *)
(* server_clock; HTTPServer.serve_forever calls it for one connection at   *)
(* a time.  do_POST is split at each access to server_clock.               *)

\* clock values a request can carry: any integer, or null
RequestValues == {JsonInt(n) : n \in IntValues} \cup {JsonNull}

\* the "vector_clock" member of a request body
RequestClocks == JsonObjects(RequestValues) \cup {JsonAbsent, JsonOther}

\* what parse_json returns, by how do_POST treats it:
\*   "falsy"   None (no body, undecodable) or an empty or zero JSON value
\*   "scalar"  a number or true: `"vector_clock" in payload` raises TypeError
\*   "array"   a non-empty list, or a string not containing the key
\*   "object"  a non-empty dict, with or without a "vector_clock" member
Bodies ==
    {[kind |-> k, vector_clock |-> JsonAbsent] : k \in {"falsy", "scalar", "array"}}
    \cup {[kind |-> "object", vector_clock |-> c] : c \in RequestClocks}

Paths    == {"/add", "/multiply", "/other"}
Operands == {"ok", "missing", "not_numbers"}

\* validate_operands(payload): "" when it returns (True, ...), else the error
validate_operands(kind, operands) ==
    IF kind # "object" THEN "Invalid JSON body"
    ELSE IF operands = "missing" THEN "Missing 'x' or 'y' in request body"
    ELSE IF operands = "not_numbers" THEN "'x' and 'y' must be numbers"
    ELSE ""

\* fault: a threading server, one handler thread per connection
serve_forever_threaded(handlers) == TRUE

\* HTTPServer.serve_forever: the next connection is accepted only after the
\* handler of the previous one has returned
serve_forever(handlers) == handlers = {}

\* fault: the increment sits inside the try block, after the update
first_step_increment_in_try(client_clock) ==
    IF client_clock.present THEN "update" ELSE "respond"

\* where do_POST goes after the try block's from_dict: to update when a
\* client clock was built, else straight to the increment
first_step(client_clock) ==
    IF client_clock.present THEN "update" ELSE "increment"

\* fault: a missing client clock is compared as an empty clock
relationship_of_empty(clock, client_clock) ==
    compare(clock, client_clock.clock)

\* the "relationship" member of the causality object
relationship(clock, client_clock) ==
    IF client_clock.present
    THEN compare(clock, client_clock.clock)
    ELSE "no_client_clock"

\* a client connects and sends a request
Arrive ==
    /\ nreq + backlog < MaxRequests
    /\ backlog' = backlog + 1
    /\ UNCHANGED <<server_clock, nreq, active, response, returned,
                   pureVars, clockVars, rpcVars>>

\* serve_forever takes the next connection and constructs its RpcHandler
Accept ==
    /\ backlog > 0
    /\ serve_forever(active)
    /\ backlog' = backlog - 1
    /\ nreq' = nreq + 1
    /\ active' = active \cup
           {[id |-> nreq', body |-> "", request_clock |-> JsonAbsent,
             client_clock |-> NoClientClock, pc |-> "parse",
             start |-> server_clock, left |-> server_clock]}
    /\ response' = NoResponse
    /\ UNCHANGED <<server_clock, returned, pureVars, clockVars, rpcVars>>

\* do_POST up to the first access to server_clock: parse_json reads the
\* body, then the `not payload` test, the key test and VectorClock.from_dict
Parse(h, body) ==
    /\ h \in active
    /\ h.pc = "parse"
    /\ IF body.kind = "falsy"
       THEN /\ response' = [NoResponse EXCEPT
                               !.status = 400, !.error = "Invalid JSON",
                               !.body = body.kind, !.start = h.start,
                               !.left = h.left]
            /\ active' = active \ {h}
       ELSE IF body.kind = "scalar"
       THEN /\ response' = [NoResponse EXCEPT
                               !.status = 0, !.error = "TypeError",
                               !.body = body.kind, !.start = h.start,
                               !.left = h.left]
            /\ active' = active \ {h}
       ELSE LET has == body.kind = "object" /\ body.vector_clock.kind # "absent"
                imp == from_dict(body.vector_clock)
                client_clock == IF has /\ imp.ok
                                THEN [present |-> TRUE, clock |-> imp.clock]
                                ELSE NoClientClock
            IN  /\ active' = (active \ {h}) \cup
                       {[h EXCEPT !.body = body.kind,
                                  !.request_clock = body.vector_clock,
                                  !.client_clock = client_clock,
                                  !.pc = first_step(client_clock)]}
                /\ UNCHANGED response
    /\ UNCHANGED <<server_clock, backlog, nreq, returned, pureVars, clockVars, rpcVars>>

\* self.server_clock.update(client_clock)
Update(h) ==
    /\ h \in active
    /\ h.pc = "update"
    /\ server_clock' = update(server_clock, h.client_clock.clock)
    /\ active' = (active \ {h}) \cup
                    {[h EXCEPT !.pc = "increment", !.left = server_clock']}
    /\ UNCHANGED <<backlog, nreq, response, returned, pureVars, clockVars, rpcVars>>

\* self.server_clock.increment()
Increment(h) ==
    /\ h \in active
    /\ h.pc = "increment"
    /\ server_clock' = increment(server_clock, "server")
    /\ active' = (active \ {h}) \cup
                    {[h EXCEPT !.pc = "respond", !.left = server_clock']}
    /\ UNCHANGED <<backlog, nreq, response, returned, pureVars, clockVars, rpcVars>>

\* the rest of do_POST: the route, validate_operands, and the response
\* built from server_clock.to_dict() and server_clock.compare(client_clock)
Respond(h, path, operands) ==
    /\ h \in active
    /\ h.pc = "respond"
    /\ LET err  == validate_operands(h.body, operands)
           base == [NoResponse EXCEPT
                       !.has_clock = TRUE, !.vector_clock = to_dict(server_clock),
                       !.body = h.body, !.request_clock = h.request_clock,
                       !.merged = h.client_clock,
                       !.path = path, !.operands = operands,
                       !.start = h.start, !.left = h.left]
       IN  response' =
             IF path \notin {"/add", "/multiply"}
             THEN [base EXCEPT !.status = 404, !.error = "Not found"]
             ELSE IF err # ""
             THEN [base EXCEPT !.status = 400, !.error = err]
             ELSE [base EXCEPT
                      !.status = 200, !.causality = TRUE,
                      !.client_clock = h.client_clock,
                      !.relationship = relationship(server_clock, h.client_clock)]
    /\ returned' = [n |-> IF returned.n = 0 THEN 1 ELSE 2,
                    later |-> to_dict(server_clock),
                    rel |-> compare(to_dict(server_clock), returned.later),
                    rev |-> compare(returned.later, to_dict(server_clock))]
    /\ active' = active \ {h}
    /\ UNCHANGED <<server_clock, backlog, nreq, pureVars, clockVars, rpcVars>>

Init ==
    /\ EpOff
    /\ PureOff
    /\ ClockOff
    /\ RpcOff

Next ==
    \/ Arrive
    \/ Accept
    \/ \E h \in active, body \in Bodies : Parse(h, body)
    \/ \E h \in active : Update(h)
    \/ \E h \in active : Increment(h)
    \/ \E h \in active, path \in Paths, operands \in Operands : Respond(h, path, operands)

Spec == Init /\ [][Next]_vars

----------------------------------------------------------------------------
(* SpecRpc: two Sessions, RpcClient("A") and RpcClient("B"), calling the   *)
(* Endpoint.  base_url names any host and the network is open, so the      *)
(* Endpoint also serves requests no Session sent, and a Session can read a *)
(* reply the Endpoint never wrote.                                         *)

\* json.dumps of a clock's dict, as json.loads gives it back
to_json(clock) == JsonObject([n \in DOMAIN clock |-> JsonInt(clock[n])])

\* the "vector_clock" member of a message that no Session and no Endpoint
\* of this program wrote: a negative, a large or a null value per label
ForgedValues == {JsonInt(-1), JsonInt(MaxCounter), JsonNull}
ForgedClocks == JsonObjects(ForgedValues) \cup {JsonAbsent, JsonOther}

\* the "vector_clock" member of a 200 reply from another host: integers per
\* label, a null value, no member, or a member that is no object
ForeignClocks ==
    JsonObjects({JsonInt(-1), JsonInt(MaxCounter)})
    \cup {JsonObject([l \in {"server"} |-> JsonNull]), JsonAbsent, JsonOther}

\* do_POST from its entry to the route: the server_clock it leaves.  A
\* falsy body returns 400 and a scalar one raises, both before any clock step
clock_steps(clock, body) ==
    IF body.kind \in {"falsy", "scalar"} THEN clock
    ELSE LET has == body.kind = "object" /\ body.vector_clock.kind # "absent"
             imp == from_dict(body.vector_clock)
             client_clock == IF has /\ imp.ok
                             THEN [present |-> TRUE, clock |-> imp.clock]
                             ELSE NoClientClock
             merged == IF first_step(client_clock) = "update"
                       THEN update(clock, client_clock.clock)
                       ELSE clock
         IN  IF first_step(client_clock) \in {"update", "increment"}
             THEN increment(merged, "server")
             ELSE merged

\* RpcHandler.do_POST from entry to return, for a dict body: the
\* server_clock it leaves, the status and the "vector_clock" member of the
\* response
do_POST(clock, body, path, operands) ==
    LET left == clock_steps(clock, body)
    IN  [clock |-> left,
         status |-> IF path \notin {"/add", "/multiply"} THEN 404
                    ELSE IF validate_operands(body.kind, operands) # "" THEN 400
                    ELSE 200,
         vector_clock |-> to_json(to_dict(left))]

\* the bodies of requests that no Session sent
OtherBodies ==
    {[kind |-> k, vector_clock |-> JsonAbsent] : k \in {"falsy", "scalar", "array"}}
    \cup {[kind |-> "object", vector_clock |-> c] : c \in ForgedClocks}

\* fault: the increment is undone when the transport fails
call_rpc_except_rollback(clock, entry) == entry

\* the except branches of call_rpc: print and return (None, None)
call_rpc_except(clock, entry) == clock

\* outcomes of call_rpc that a caller retries
Failed == {"http_error", "url_error"}

\* call_rpc up to urlopen: increment, attach to_dict() to the payload, send
CallRpc(s) ==
    /\ call[s].pc = "idle"
    /\ nsent < MaxRequests
    /\ nsent' = nsent + 1
    /\ vector_clock' = [vector_clock EXCEPT ![s] = increment(vector_clock[s], s)]
    /\ net' = [net EXCEPT ![s] = [kind |-> "request", status |-> 0,
                                  vector_clock |-> to_json(to_dict(vector_clock'[s]))]]
    /\ call' = [call EXCEPT ![s] = [pc |-> "urlopen", outcome |-> "none",
                                    retry |-> call[s].outcome \in Failed,
                                    before |-> vector_clock[s],
                                    sent |-> vector_clock'[s],
                                    returned |-> JsonAbsent]]
    /\ UNCHANGED <<epVars, pureVars, clockVars>>

\* the Endpoint handles a Session's request and writes its response
ServeRequest(s, path, operands) ==
    /\ net[s].kind = "request"
    /\ LET r == do_POST(server_clock,
                        [kind |-> "object", vector_clock |-> net[s].vector_clock],
                        path, operands)
       IN  /\ server_clock' = r.clock
           /\ net' = [net EXCEPT ![s] = [kind |-> "reply", status |-> r.status,
                                         vector_clock |-> r.vector_clock]]
    /\ UNCHANGED <<vector_clock, call, nsent, backlog, nreq, active, response, returned,
                   pureVars, clockVars>>

\* the Endpoint handles a request that no Session sent; its response, built
\* after the clock steps, goes to that sender
ServeOther(body) ==
    /\ nsent < MaxRequests
    /\ nsent' = nsent + 1
    /\ server_clock' = clock_steps(server_clock, body)
    /\ UNCHANGED <<vector_clock, call, net, backlog, nreq, active, response, returned,
                   pureVars, clockVars>>

\* the host a Session called answers 200 with a body of its own
ForeignReply(s, data) ==
    /\ net[s].kind = "request"
    /\ net' = [net EXCEPT ![s] = [kind |-> "reply", status |-> 200,
                                  vector_clock |-> data]]
    /\ UNCHANGED <<vector_clock, call, nsent, epVars, pureVars, clockVars>>

\* urlopen raises URLError: connection refused or reset, or a timeout
\* before or after the Endpoint handled the request
TransportFails(s) ==
    /\ net[s].kind \in {"request", "reply"}
    /\ net' = [net EXCEPT ![s] = NoMessage]
    /\ vector_clock' = [vector_clock EXCEPT
                           ![s] = call_rpc_except(vector_clock[s], call[s].before)]
    /\ call' = [call EXCEPT ![s].pc = "idle", ![s].outcome = "url_error"]
    /\ UNCHANGED <<nsent, epVars, pureVars, clockVars>>

\* urlopen returns or raises HTTPError: the rest of call_rpc.  A status of
\* 400 or 404 goes to the HTTPError branch; from_dict raising leaves
\* call_rpc through no except branch, before the update
ReadReply(s) ==
    /\ net[s].kind = "reply"
    /\ net' = [net EXCEPT ![s] = NoMessage]
    /\ LET data == net[s].vector_clock
           imp  == from_dict(data)
       IN  IF net[s].status # 200
           THEN /\ vector_clock' = [vector_clock EXCEPT
                        ![s] = call_rpc_except(vector_clock[s], call[s].before)]
                /\ call' = [call EXCEPT ![s].pc = "idle",
                                        ![s].outcome = "http_error"]
           ELSE IF data.kind = "absent"
           THEN /\ call' = [call EXCEPT ![s].pc = "idle", ![s].outcome = "ok"]
                /\ UNCHANGED vector_clock
           ELSE IF ~imp.ok
           THEN /\ call' = [call EXCEPT ![s].pc = "idle", ![s].outcome = "raised",
                                        ![s].returned = data]
                /\ UNCHANGED vector_clock
           ELSE /\ vector_clock' = [vector_clock EXCEPT
                        ![s] = update(vector_clock[s], imp.clock)]
                /\ call' = [call EXCEPT ![s].pc = "idle", ![s].outcome = "ok",
                                        ![s].returned = data]
    /\ UNCHANGED <<nsent, epVars, pureVars, clockVars>>

\* RpcClient.__init__ for each Session, and the Endpoint's class attribute
RpcInit ==
    /\ vector_clock = [s \in Nodes |-> VectorClock(s, {s, "server"})]
    /\ call = [s \in Nodes |-> NoCall]
    /\ net = [s \in Nodes |-> NoMessage]
    /\ nsent = 0
    /\ EpOff
    /\ PureOff
    /\ ClockOff

RpcNext ==
    \/ \E s \in Nodes : CallRpc(s)
    \/ \E s \in Nodes, path \in Paths, operands \in Operands :
          ServeRequest(s, path, operands)
    \/ \E body \in OtherBodies : ServeOther(body)
    \/ \E s \in Nodes, data \in ForeignClocks : ForeignReply(s, data)
    \/ \E s \in Nodes : TransportFails(s)
    \/ \E s \in Nodes : ReadReply(s)

SpecRpc == RpcInit /\ [][RpcNext]_vars

\* the same Sessions and Endpoint when clocks travel through call_rpc and
\* do_POST only: every request comes from a Session, every reply from the
\* Endpoint
ClosedNext ==
    \/ \E s \in Nodes : CallRpc(s)
    \/ \E s \in Nodes, path \in Paths, operands \in Operands :
          ServeRequest(s, path, operands)
    \/ \E s \in Nodes : TransportFails(s)
    \/ \E s \in Nodes : ReadReply(s)

SpecClosed == RpcInit /\ [][ClosedNext]_vars

----------------------------------------------------------------------------
(* Claims *)

\* a label absent from a clock reads as 0
CounterOf(clock, label) == IF label \in DOMAIN clock THEN clock[label] ELSE 0

Ahead(a, b) == \E l \in Labels : CounterOf(a, l) > CounterOf(b, l)

\* C1: A.compare(B) is after exactly when some label has A > B and none has
\* B > A, before exactly when some label has B > A and none has A > B, equal
\* exactly when no label differs, concurrent exactly when both occur; labels
\* absent from either clock read as 0.
C1_CompareVerdict ==
    ret.op = "compare" =>
        LET selfAhead  == Ahead(ret.before, ret.arg)
            otherAhead == Ahead(ret.arg, ret.before)
        IN  /\ (ret.rel = after) <=> (selfAhead /\ ~otherAhead)
            /\ (ret.rel = before) <=> (otherAhead /\ ~selfAhead)
            /\ (ret.rel = equal) <=> (~selfAhead /\ ~otherAhead)
            /\ (ret.rel = concurrent) <=> (selfAhead /\ otherAhead)

\* a comparison against a clock with labels self has never seen, which
\* decide the verdict: self is ahead on a common label only
C1_Witness ==
    /\ ret.op = "compare"
    /\ ret.rel = concurrent
    /\ \E l \in DOMAIN ret.arg \ DOMAIN ret.before : ret.arg[l] > 0
    /\ \E l \in DOMAIN ret.before \ DOMAIN ret.arg : ret.before[l] > 0
    /\ \A l \in DOMAIN ret.arg \cap DOMAIN ret.before : ret.before[l] = ret.arg[l]

C3_CausalChain ==
    chain.done =>
        /\ compare(chain.after, chain.sent) = after
        /\ compare(chain.sent, chain.after) = before

\* a receive by a node that had events of its own the sender never saw and
\* that first learns the sender's label from the snapshot
C3_Witness ==
    /\ chain.done
    /\ chain.after[chain.to] >= 2
    /\ chain.sent[chain.from] >= 2
    /\ chain.to \notin DOMAIN chain.sent

\* C4: two clocks that each incremented their own label, with no merge
\* between them, compare as concurrent in both directions.
C4_IndependentIsConcurrent ==
    \A x \in Nodes, y \in Nodes :
        (x # y /\ history[x] = "own" /\ history[y] = "own") =>
            compare(clocks[x], clocks[y]) = concurrent

\* A = {A:1, B:0} and B = {A:0, B:1}, each after one increment of its own
C4_Witness ==
    /\ history = [n \in Nodes |-> "own"]
    /\ clocks["A"] = [n \in Nodes |-> IF n = "A" THEN 1 ELSE 0]
    /\ clocks["B"] = [n \in Nodes |-> IF n = "B" THEN 1 ELSE 0]

\* the response answers a request that went through do_POST's clock steps
\* (its body decoded to a non-empty list or object)
Handled == response.body \in {"array", "object"}

\* the request carried a "vector_clock" member
CarriedClock == response.body = "object" /\ response.request_clock.kind # "absent"

\* the request's clock is a label -> non-negative integer mapping
ValidClock ==
    /\ response.body = "object"
    /\ response.request_clock.kind = "object"
    /\ \A k \in DOMAIN response.request_clock.items :
          /\ response.request_clock.items[k].t = "int"
          /\ response.request_clock.items[k].v >= 0

\* the mapping a valid request clock denotes
ClockAsReceived ==
    [k \in DOMAIN response.request_clock.items |-> response.request_clock.items[k].v]

\* C5: a request is handled as one atomic merge -> increment -> compare on
\* the shared clock: while a request is between its accept and its response
\* no other request is, the clock is as that request's own last step left
\* it, and the response carries the clock of that request's own transition.
C5_HandlingIsAtomic ==
    /\ Cardinality(active) <= 1
    /\ \A h \in active : server_clock = h.left
    /\ response.has_clock => response.vector_clock = response.left

\* a request past its merge while another request is in flight
C5_Witness ==
    /\ backlog >= 1
    /\ \E h \in active :
          /\ h.pc = "increment"
          /\ h.client_clock.present
          /\ h.left # h.start

\* C6: the Endpoint increments its own counter exactly once per handled
\* request, after the merge of the client clock, and does so whether or not
\* the request carried a client clock.
C6_OneIncrementPerRequest ==
    Handled =>
        LET own == IF response.merged.present
                   THEN Max(CounterOf(response.start, "server"),
                            CounterOf(response.merged.clock, "server"))
                   ELSE CounterOf(response.start, "server")
        IN  /\ response.has_clock
            /\ CounterOf(response.vector_clock, "server") = own + 1
            /\ CounterOf(server_clock, "server") = own + 1

\* a request without a client clock, answered by an Endpoint that had
\* already handled a request: its own counter went up by exactly one
C6_Witness ==
    /\ Handled
    /\ ~CarriedClock
    /\ response.start["server"] >= 1
    /\ server_clock["server"] = response.start["server"] + 1

\* C7: for a request carrying a valid client clock c handled from state s,
\* the resulting clock, also returned in the response, is the pointwise
\* maximum of s and c with the Endpoint's own label raised by one, and the
\* relationship returned is the comparison of that clock with c as received.
C7_MergeThenIncrementThenCompare ==
    ValidClock =>
        LET c == ClockAsReceived
            s == response.start
        IN  /\ response.has_clock
            /\ server_clock = response.vector_clock
            /\ DOMAIN response.vector_clock = DOMAIN s \cup DOMAIN c \cup {"server"}
            /\ \A l \in Labels :
                  CounterOf(response.vector_clock, l) =
                      (IF CounterOf(s, l) >= CounterOf(c, l)
                       THEN CounterOf(s, l) ELSE CounterOf(c, l))
                      + (IF l = "server" THEN 1 ELSE 0)
            /\ response.status = 200 =>
                  /\ response.client_clock = [present |-> TRUE, clock |-> c]
                  /\ response.relationship = compare(response.vector_clock, c)

\* c = {A:2, B:1} against s = {server:0} gives {A:2, B:1, server:1} and after
C7_Witness ==
    /\ response.status = 200
    /\ ValidClock
    /\ response.start = [l \in {"server"} |-> 0]
    /\ ClockAsReceived = [l \in {"A", "B"} |-> IF l = "A" THEN 2 ELSE 1]
    /\ response.vector_clock =
          [l \in Labels |-> IF l = "A" THEN 2 ELSE 1]
    /\ response.relationship = after

\* C8: a request whose payload lacks the x or y operand is rejected before
\* any clock merge: after it the Endpoint's clock is the same as before it.
C8_MissingOperandsLeaveClock ==
    (response.status = 400 /\ response.operands = "missing") =>
        server_clock = response.start

\* C9: when a request carries a clock snapshot whose import fails, the
\* Endpoint rejects the request and leaves its clock unmodified.
C9_MalformedClockRejected ==
    (CarriedClock /\ ~from_dict(response.request_clock).ok) =>
        /\ response.status # 200
        /\ server_clock = response.start

\* C10: from_dict succeeds only when every value of the mapping is a
\* non-negative integer, and fails for any negative or non-integer value.
C10_ImportIsStrict ==
    ret.op = "from_dict" =>
        (ret.ok <=>
            /\ data_in.kind = "object"
            /\ \A k \in DOMAIN data_in.items :
                  data_in.items[k].t = "int" /\ data_in.items[k].v >= 0)

\* clock b is clock a with the counter of label own raised by one (created
\* when absent) and every other label as it was
OwnStep(a, b, own) ==
    /\ DOMAIN b = DOMAIN a \cup {own}
    /\ b[own] = CounterOf(a, own) + 1
    /\ \A l \in DOMAIN a \ {own} : b[l] = a[l]

\* C11: every call_rpc attempt, first try or retry, increments the Session's
\* own counter by exactly one before the clock is attached and sent; when
\* the transport then fails (timeout, connection error, HTTP error) the
\* increment is not rolled back and no other label of the clock changes.
C11_IncrementSurvivesFailure ==
    \A s \in Nodes :
        call[s] # NoCall =>
            /\ OwnStep(call[s].before, call[s].sent, s)
            /\ net[s].kind = "request" =>
                  net[s].vector_clock = to_json(call[s].sent)
            /\ call[s].pc = "urlopen" => vector_clock[s] = call[s].sent
            /\ call[s].outcome \in Failed => vector_clock[s] = call[s].sent

\* a retry that failed as the first attempt did: two increments are kept
C11_Witness ==
    \E s \in Nodes :
        /\ call[s].retry
        /\ call[s].outcome \in Failed
        /\ vector_clock[s][s] = 2
        /\ call[s].before[s] = 1

\* the call_rpc of Session s ended with a reply whose clock was merged
MergedReply(s) ==
    /\ call[s].pc = "idle"
    /\ call[s].outcome = "ok"
    /\ call[s].returned.kind = "object"

\* the mapping the reply's "vector_clock" member denotes
ClockReturned(s) ==
    [k \in DOMAIN call[s].returned.items |-> call[s].returned.items[k].v]

\* C12: on a successful reply that carries a clock snapshot the Session
\* merges it: after the call its clock is the pointwise maximum of the clock
\* it sent and the clock returned, so every label is >= the returned value.
C12_ReplyIsMerged ==
    \A s \in Nodes :
        MergedReply(s) =>
            LET r == ClockReturned(s)
            IN  /\ DOMAIN vector_clock[s] = DOMAIN call[s].sent \cup DOMAIN r
                /\ \A l \in Labels :
                      /\ CounterOf(vector_clock[s], l) =
                            Max(CounterOf(call[s].sent, l), CounterOf(r, l))
                      /\ CounterOf(vector_clock[s], l) >= CounterOf(r, l)

\* a reply that is behind the Session on one label and brings a label the
\* Session had never seen
C12_Witness ==
    \E s \in Nodes :
        /\ MergedReply(s)
        /\ \E l \in DOMAIN call[s].sent \cap DOMAIN ClockReturned(s) :
              ClockReturned(s)[l] < call[s].sent[l]
        /\ \E l \in DOMAIN ClockReturned(s) \ DOMAIN call[s].sent :
              ClockReturned(s)[l] > 0

\* C13 as stated: merge(other) neither decreases nor increases the owner's
\* counter, for any operand; here the Endpoint's own label across the merge
\* step of a request.
C13_MergeLeavesOwnCounter ==
    \A h \in active :
        h.pc = "increment" =>
            CounterOf(h.left, "server") = CounterOf(h.start, "server")

\* C13: merge(other) never decreases the owner's counter; it leaves it
\* unchanged unless other carries a larger value for the owner's label, and
\* then raises it to that value.
C13_MergeRaisesOwnCounterToOperand ==
    \A h \in active :
        h.pc = "increment" =>
            /\ CounterOf(h.left, "server") >= CounterOf(h.start, "server")
            /\ CounterOf(h.left, "server") =
                  IF h.client_clock.present
                  THEN Max(CounterOf(h.start, "server"),
                           CounterOf(h.client_clock.clock, "server"))
                  ELSE CounterOf(h.start, "server")

\* a request whose clock is ahead of the Endpoint on the Endpoint's own
\* label, handled after an earlier request, just past its merge
C13_Witness ==
    \E h \in active :
        /\ h.pc = "increment"
        /\ h.client_clock.present
        /\ h.start["server"] = 1
        /\ h.left["server"] = 2

\* C14: in every reachable state every counter of the Endpoint's clock and
\* of every Session's clock is >= 0, whatever label-to-integer mappings
\* arrive in request or response envelopes.
C14_CountersNonNegative ==
    /\ \A l \in DOMAIN server_clock : server_clock[l] >= 0
    /\ \A s \in Nodes : \A l \in DOMAIN vector_clock[s] : vector_clock[s][l] >= 0

\* a Session has merged a reply holding a negative value for a label it had
\* never seen, and the Endpoint holds at 0 the label of a Session that never
\* called: a negative value for it arrived in a request
C14_Witness ==
    /\ \E s \in Nodes :
          /\ MergedReply(s)
          /\ \E l \in DOMAIN ClockReturned(s) \ DOMAIN call[s].sent :
                ClockReturned(s)[l] < 0 /\ vector_clock[s][l] = 0
    /\ \E s \in Nodes :
          /\ call[s] = NoCall
          /\ s \in DOMAIN server_clock
          /\ server_clock[s] = 0

\* every label of clock a is in clock b, with a counter at least as large
Grows(a, b) == \A l \in DOMAIN a : l \in DOMAIN b /\ b[l] >= a[l]

\* C15: over any sequence of increment and merge operations, every step of
\* a Session and of the Endpoint included, no label's counter decreases from
\* one state to the next and a label once present is never removed.
C15_CountersNeverDecrease ==
    [][/\ Grows(server_clock, server_clock')
       /\ \A s \in Nodes : Grows(vector_clock[s], vector_clock'[s])]_vars

\* both clocks have grown by increments and by merges: the Endpoint holds a
\* Session's count, that Session has called twice and holds the Endpoint's
\* count and a label it was not built with
C15_Witness ==
    \E s \in Nodes :
        /\ s \in DOMAIN server_clock
        /\ server_clock[s] >= 1
        /\ server_clock["server"] >= 1
        /\ vector_clock[s][s] >= 2
        /\ vector_clock[s]["server"] >= 1
        /\ DOMAIN vector_clock[s] = Labels

\* C16: merge is idempotent: A.merge(B) followed by a second A.merge(B)
\* leaves A in the same state as the single merge.
C16_MergeIdempotent ==
    both.op = "update_twice" => both.right = both.left

\* the single merge raised one label of A, created another and kept a third
C16_Witness ==
    /\ both.op = "update_twice"
    /\ \E l \in DOMAIN self_in \cap DOMAIN other_in :
          other_in[l] > self_in[l] /\ both.left[l] = other_in[l]
    /\ \E l \in DOMAIN other_in \ DOMAIN self_in : other_in[l] > 0
    /\ \E l \in DOMAIN self_in : both.left[l] = self_in[l] /\ self_in[l] > 0

\* C17: merge is commutative and associative as a join: merging B into A
\* gives the same mapping as merging A into B, and merging B then C into A
\* the same as merging into A the result of merging C into B; so the merged
\* counters do not depend on the order in which snapshots arrive.
C17_MergeIsJoin ==
    both.op \in {"update_both_ways", "update_chain", "update_either_order"} =>
        both.left = both.right

\* C18: anti-symmetry of compare: A.compare(B) is after if and only if
\* B.compare(A) is before.
C18_CompareAntiSymmetric ==
    both.op = "compare_both_ways" =>
        ((both.left = after) <=> (both.right = before))

\* A is after B through a label B has never seen
C18_Witness ==
    /\ both.op = "compare_both_ways"
    /\ both.left = after
    /\ both.right = before
    /\ \E l \in DOMAIN self_in \ DOMAIN other_in : self_in[l] > 0
    /\ \A l \in DOMAIN self_in \cap DOMAIN other_in : self_in[l] = other_in[l]

\* C19: reflexivity of compare: C.compare(C), and C compared with an
\* identical snapshot of itself, is equal; compare leaves both operands
\* unchanged.
C19_CompareReflexive ==
    ret.op = "compare" =>
        /\ ret.arg = to_dict(ret.before) => ret.rel = equal
        /\ self_in = ret.before
        /\ other_in = ret.arg

\* a clock over all three labels with a positive counter, compared with its
\* own snapshot
C19_Witness ==
    /\ ret.op = "compare"
    /\ ret.arg = to_dict(ret.before)
    /\ DOMAIN ret.before = Labels
    /\ \E l \in Labels : ret.before[l] > 0
    /\ ret.rel = equal

\* C20: when a request carries no client clock snapshot the Endpoint skips
\* the merge (its clock changes only by the single increment of its own
\* label) and reports the relationship 'no_client_clock' with a null client
\* clock.
C20_NoClientClockSkipsMerge ==
    (Handled /\ ~CarriedClock) =>
        /\ ~response.merged.present
        /\ OwnStep(response.start, server_clock, "server")
        /\ response.vector_clock = server_clock
        /\ response.status = 200 =>
              /\ response.causality
              /\ response.relationship = "no_client_clock"
              /\ ~response.client_clock.present

\* a 200 response to a request without a clock, from an Endpoint that holds
\* a client's label from an earlier request
C20_Witness ==
    /\ Handled
    /\ ~CarriedClock
    /\ response.status = 200
    /\ response.relationship = "no_client_clock"
    /\ \E l \in DOMAIN response.start \ {"server"} : response.start[l] > 0

\* C21: whenever a request carries a client clock that imports
\* successfully, the relationship the Endpoint reports is after: its
\* post-merge, post-increment clock is >= the as-received client clock on
\* every label and strictly greater on the Endpoint's own label, so before,
\* equal and concurrent are never reported.
C21_ReportedRelationshipIsAfter ==
    (response.status = 200 /\ response.client_clock.present) =>
        LET c == response.client_clock.clock
        IN  /\ response.relationship = after
            /\ \A l \in Labels :
                  CounterOf(response.vector_clock, l) >= CounterOf(c, l)
            /\ CounterOf(response.vector_clock, "server") > CounterOf(c, "server")

\* a client clock that was ahead of the Endpoint on the Endpoint's own
\* label and on a label the Endpoint had never seen
C21_Witness ==
    /\ response.status = 200
    /\ response.client_clock.present
    /\ response.relationship = after
    /\ "server" \in DOMAIN response.client_clock.clock
    /\ response.client_clock.clock["server"] > response.start["server"]
    /\ \E l \in DOMAIN response.client_clock.clock \ DOMAIN response.start :
          response.client_clock.clock[l] > 0

\* the counter the owner of label l holds for itself
OwnCounter(l) ==
    IF l = "server" THEN CounterOf(server_clock, l) ELSE CounterOf(vector_clock[l], l)

\* C22: when clocks travel only through call_rpc and do_POST between
\* Sessions with distinct ids and one Endpoint, no participant's counter
\* for a label L ever exceeds the counter L's owner holds for itself.
C22_NoCounterAheadOfOwner ==
    \A l \in Labels :
        /\ CounterOf(server_clock, l) <= OwnCounter(l)
        /\ \A s \in Nodes : CounterOf(vector_clock[s], l) <= OwnCounter(l)

\* a Session holds another Session's count, learned through the Endpoint,
\* and that Session's own call has failed
C22_Witness ==
    \E s \in Nodes, t \in Nodes :
        /\ s # t
        /\ CounterOf(vector_clock[s], t) >= 1
        /\ CounterOf(server_clock, t) >= 1
        /\ call[t].outcome \in Failed

\* C23: for any two POST requests the Endpoint processes one after the
\* other, the clock returned for the later one compares as after the clock
\* returned for the earlier one (never equal, before or concurrent),
\* whatever client clocks the two requests carried.
C23_LaterResponseIsAfter ==
    returned.n = 2 =>
        /\ returned.rel = after
        /\ returned.rev = before

\* the later request carried no clock and the earlier one had brought a
\* client's count: the two clocks differ in the Endpoint's own label only
C23_Witness ==
    /\ returned.n = 2
    /\ returned.rel = after
    /\ Handled
    /\ ~CarriedClock
    /\ returned.later = response.vector_clock
    /\ \E l \in DOMAIN returned.later \ {"server"} : returned.later[l] > 0
    /\ \A l \in DOMAIN returned.later \ {"server"} :
          returned.later[l] = CounterOf(response.start, l)

====
